---- MODULE Spec2Model ----
(***************************************************************************)
(* Model of src/src/screencastPanel.ts: the ScreencastPanel controller, its *)
(* static singleton slot, the panel and socket bridge each controller owns, *)
(* and the handlers the constructor wires.  Every handler runs to          *)
(* completion (single-threaded event loop), so each is one action.         *)
(***************************************************************************)
EXTENDS Integers, Sequences, FiniteSets, TLC

\* ------------------------------------------------------------------ bounds
MaxControllers == 2
\* Controllers that the teardown specification constructs.
MaxLifeControllers == 3
\* Controllers that the reportError specification constructs.
MaxErrControllers == 1
\* Controllers that the event specification constructs.
MaxEvtControllers == 2
\* Controllers that the message specification constructs, and the webview
\* messages it delivers.
MaxMsgControllers == 2
MaxMessages == 2

Max(a, b) == IF a >= b THEN a ELSE b
Ids == 1..Max(Max(MaxControllers, MaxLifeControllers),
           Max(Max(MaxEvtControllers, MaxMsgControllers), MaxErrControllers))
Urls == {"ws://a", "ws://b"}
Messages == {"m1", "m2"}
WebSocketEvents == {"open", "message"}

VARIABLES
    instance,    \* ScreencastPanel.instance: 0 is undefined, else a controller id
    created,     \* number of controllers constructed so far (ids 1..created)
    panel,       \* panel[c]: "none" | "live" | "released"
    panelSocket, \* panelSocket[c]: "none" | "open" | "disposed"
    targetUrl,   \* targetUrl[c]
    visible,     \* panel[c].visible
    html,        \* panel[c].webview.html
    firstDisposal, \* history: <<slot, panel, socket>> when dispose() first returned on c
    last,        \* history: the handler that ran last and what it did
    inbox,       \* history: the webview messages delivered, in order, as <<c, m>>
    outbox       \* history: the calls to onMessageFromWebview, in order

vars == <<instance, created, panel, panelSocket, targetUrl, visible, html,
          firstDisposal, last, inbox, outbox>>

\* ------------------------------------------------------------- the world
\* The handlers are operators on a record of the program state plus the
\* collaborator calls made while the handler runs.
World ==
    [instance |-> instance, created |-> created, panel |-> panel,
     panelSocket |-> panelSocket, targetUrl |-> targetUrl, visible |-> visible,
     html |-> html,
     raised |-> "none", dialog |-> <<>>, telemetry |-> <<>>, forwarded |-> <<>>,
     posts |-> <<>>, htmlAssigns |-> 0, nDispose |-> 0, nPanelDispose |-> 0,
     nSocketDispose |-> 0, nPanelCreate |-> 0, constructed |-> 0,
     disposedId |-> 0, releasedInSlot |-> FALSE]

\* PanelSocket.dispose(): releases the bridge; repeated calls are tolerated.
\* releasedInSlot records a release made while the slot still held c.
PanelSocketDispose(w, c) ==
    [w EXCEPT !.panelSocket[c] = "disposed", !.nSocketDispose = @ + 1,
              !.releasedInSlot = @ \/ w.instance = c]

RECURSIVE dispose(_, _)
RECURSIVE onDidDispose(_, _)

\* vscode.WebviewPanel.dispose(): the first call releases the panel and fires
\* the dispose notification synchronously; later calls do nothing.
PanelDispose(w, c) ==
    LET w1 == [w EXCEPT !.nPanelDispose = @ + 1,
                        !.releasedInSlot = @ \/ w.instance = c]
    IN  IF w1.panel[c] = "released"
        THEN w1
        ELSE onDidDispose([w1 EXCEPT !.panel[c] = "released"], c)

\* dispose() that clears the slot only when it holds this controller.
disposeGuarded(w, c) ==
    LET w1 == [w EXCEPT !.instance = IF @ = c THEN 0 ELSE @, !.nDispose = @ + 1,
                        !.disposedId = c]
    IN  PanelSocketDispose(PanelDispose(w1, c), c)

\* dispose() that forgets to dispose the socket bridge.
disposeNoSocket(w, c) ==
    LET w1 == [w EXCEPT !.instance = 0, !.nDispose = @ + 1, !.disposedId = c]
    IN  [w1 EXCEPT !.panel[c] = "released", !.nPanelDispose = @ + 1]

\* dispose() that clears the slot after releasing the panel and the socket
disposeClearsLast(w, c) ==
    LET w1 == [w EXCEPT !.nDispose = @ + 1, !.disposedId = c]
        w2 == PanelSocketDispose(PanelDispose(w1, c), c)
    IN  [w2 EXCEPT !.instance = 0]

\* ScreencastPanel.dispose()
dispose(w, c) ==
    LET w1 == [w EXCEPT !.instance = 0, !.nDispose = @ + 1, !.disposedId = c]
    IN  PanelSocketDispose(PanelDispose(w1, c), c)

\* a dispose handler that only disposes the socket bridge
onDidDisposeSocketOnly(w, c) == PanelSocketDispose(w, c)

\* the panel.onDidDispose handler
onDidDispose(w, c) == PanelSocketDispose(dispose(w, c), c)

\* ScreencastPanel.onSocketClose()
onSocketClose(w, c) == dispose(w, c)

\* ScreencastPanel.getHtmlForWebview(): the view renderer's output
getHtmlForWebview(w, c) == "view"

\* ScreencastPanel.update()
update(w, c) ==
    [w EXCEPT !.html[c] = getHtmlForWebview(w, c), !.htmlAssigns = @ + 1]

\* a view-state handler that renders whatever panel.visible reads
onDidChangeViewStateAlways(w, c) == update(w, c)

\* the panel.onDidChangeViewState handler
onDidChangeViewState(w, c) == IF w.visible[c] THEN update(w, c) ELSE w

\* a message handler that forwards each message twice
onDidReceiveMessageTwice(w, c, message) ==
    [w EXCEPT !.forwarded = @ \o <<[socket |-> c, message |-> message],
                                   [socket |-> c, message |-> message]>>]

\* the panel.webview.onDidReceiveMessage handler
onDidReceiveMessage(w, c, message) ==
    [w EXCEPT !.forwarded = Append(@, [socket |-> c, message |-> message])]

\* common/webviewEvents encodeMessageForChannel(post, channel, args): posts one
\* envelope; a property whose value is undefined is left out of it.
encodeMessageForChannel(w, c, channel, e, message) ==
    LET args == IF message = <<>>
                THEN [k \in {"event"} |-> e]
                ELSE [k \in {"event", "message"} |->
                        IF k = "event" THEN e ELSE message[1]]
    IN  [w EXCEPT !.posts = Append(@, [webview |-> c, channel |-> channel,
                                         args |-> args])]

\* postToWebview that sends a null message when none was passed
postToWebviewNull(w, c, e, message) ==
    encodeMessageForChannel(w, c, "websocket", e,
                            IF message = <<>> THEN <<"null">> ELSE message)

\* ScreencastPanel.postToWebview(e, message?); message is <<>> when absent
postToWebview(w, c, e, message) ==
    encodeMessageForChannel(w, c, "websocket", e, message)

\* ------------------------------------------------------------------ JSON
\* A raw string is its sequence of JSON tokens.  String tokens carry their
\* quotes, so the token "\"1\"" (a string) differs from the token "1".
StrTokens == {"\"errorCode\"", "\"title\"", "\"message\"", "\"foo\"",
              "\"\"", "\"Oops\"", "\"failed\"", "\"bar\""}
NumTokens == {"0", "1"}
LitTokens == {"null", "true", "false"}

\* the characters between the quotes of a string token
StrContent(tok) ==
    CASE tok = "\"errorCode\"" -> "errorCode"
      [] tok = "\"title\"" -> "title"
      [] tok = "\"message\"" -> "message"
      [] tok = "\"foo\"" -> "foo"
      [] tok = "\"\"" -> ""
      [] tok = "\"Oops\"" -> "Oops"
      [] tok = "\"failed\"" -> "failed"
      [] tok = "\"bar\"" -> "bar"

NoMembers == [k \in {} |-> 0]
JValue(t, v) == [t |-> t, v |-> v, m |-> NoMembers]
JUndefined == JValue("undefined", "")
JObject(m) == [t |-> "obj", v |-> "", m |-> m]

IsScalarTok(tok) == tok \in StrTokens \cup NumTokens \cup LitTokens
ScalarOf(tok) ==
    IF tok \in StrTokens THEN JValue("str", StrContent(tok))
    ELSE IF tok \in NumTokens THEN JValue("num", tok)
    ELSE IF tok = "null" THEN JValue("null", "")
    ELSE JValue("bool", tok)

ParseFail == [ok |-> FALSE, val |-> JUndefined]
ParseOk(val) == [ok |-> TRUE, val |-> val]

\* members of an object, from token i (a key) up to the closing brace at Len(s);
\* a repeated key keeps its last value
RECURSIVE ParseMembers(_, _, _)
ParseMembers(s, i, acc) ==
    IF i + 3 > Len(s) THEN ParseFail
    ELSE IF ~(s[i] \in StrTokens /\ s[i + 1] = ":" /\ IsScalarTok(s[i + 2]))
    THEN ParseFail
    ELSE LET key == StrContent(s[i])
             acc1 == [k \in DOMAIN acc \cup {key} |->
                        IF k = key THEN ScalarOf(s[i + 2]) ELSE acc[k]]
         IN  IF i + 3 = Len(s) THEN ParseOk(JObject(acc1))
             ELSE IF s[i + 3] = "," THEN ParseMembers(s, i + 4, acc1)
             ELSE ParseFail

\* elements of an array of scalars, from token i up to the bracket at Len(s)
RECURSIVE ParseElements(_, _)
ParseElements(s, i) ==
    IF i + 1 > Len(s) \/ ~IsScalarTok(s[i]) THEN ParseFail
    ELSE IF i + 1 = Len(s) THEN ParseOk(JValue("arr", ""))
    ELSE IF s[i + 1] = "," THEN ParseElements(s, i + 2)
    ELSE ParseFail

\* JSON.parse on documents of scalars, arrays of scalars and flat objects
JSONParse(s) ==
    IF Len(s) = 0 THEN ParseFail
    ELSE IF Len(s) = 1
    THEN IF IsScalarTok(s[1]) THEN ParseOk(ScalarOf(s[1])) ELSE ParseFail
    ELSE IF s[1] = "{" /\ s[Len(s)] = "}"
    THEN IF Len(s) = 2 THEN ParseOk(JObject(NoMembers))
         ELSE ParseMembers(s, 2, NoMembers)
    ELSE IF s[1] = "[" /\ s[Len(s)] = "]"
    THEN IF Len(s) = 2 THEN ParseOk(JValue("arr", ""))
         ELSE ParseElements(s, 2)
    ELSE ParseFail

\* property read x.k: undefined on a primitive, an array or a missing key
Get(x, k) ==
    IF x.t = "obj" /\ k \in DOMAIN x.m THEN x.m[k] ELSE JUndefined

\* JavaScript truthiness
Truthy(x) ==
    CASE x.t = "undefined" -> FALSE
      [] x.t = "null" -> FALSE
      [] x.t = "bool" -> x.v = "true"
      [] x.t = "num" -> x.v # "0"
      [] x.t = "str" -> x.v # ""
      [] OTHER -> TRUE

TelemetryEvent(msg) == [name |-> "view/screencast/error", props |-> [message |-> msg]]

\* reportError that downgrades a parse failure to telemetry
reportErrorCaught(w, c, msg) ==
    LET p == JSONParse(msg)
    IN  IF ~p.ok \/ p.val.t = "null"
        THEN [w EXCEPT !.telemetry = Append(@, TelemetryEvent(msg))]
        ELSE IF Get(p.val, "errorCode").t # "undefined" /\ Truthy(Get(p.val, "title"))
                /\ Truthy(Get(p.val, "message"))
        THEN [w EXCEPT !.dialog = Append(@, p.val)]
        ELSE [w EXCEPT !.telemetry = Append(@, TelemetryEvent(msg))]

\* reportError that tears the controller down after reporting to telemetry
reportErrorDisposes(w, c, msg) ==
    LET p == JSONParse(msg)
    IN  IF ~p.ok THEN [w EXCEPT !.raised = "SyntaxError"]
        ELSE IF p.val.t = "null" THEN [w EXCEPT !.raised = "TypeError"]
        ELSE IF Get(p.val, "errorCode").t # "undefined" /\ Truthy(Get(p.val, "title"))
                /\ Truthy(Get(p.val, "message"))
        THEN [w EXCEPT !.dialog = Append(@, p.val)]
        ELSE dispose([w EXCEPT !.telemetry = Append(@, TelemetryEvent(msg))], c)

\* ScreencastPanel.reportError(msg)
reportError(w, c, msg) ==
    LET p == JSONParse(msg)
    IN  IF ~p.ok THEN [w EXCEPT !.raised = "SyntaxError"]
        ELSE LET errorObj == p.val
             IN  IF errorObj.t = "null" THEN [w EXCEPT !.raised = "TypeError"]
                 ELSE IF Get(errorObj, "errorCode").t # "undefined"
                         /\ Truthy(Get(errorObj, "title"))
                         /\ Truthy(Get(errorObj, "message"))
                 THEN [w EXCEPT !.dialog = Append(@, errorObj)]
                 ELSE [w EXCEPT !.telemetry = Append(@, TelemetryEvent(msg))]

\* ------------------------------------------------------------ createOrShow
\* vscode.window.createWebviewPanel(...): a new panel, shown beside the editor
createWebviewPanel(w, id) ==
    [w EXCEPT !.panel[id] = "live", !.visible[id] = TRUE, !.html[id] = "",
              !.nPanelCreate = @ + 1]

\* a constructor that forgets to store the target URL
constructorNoUrl(w, id, url) ==
    [w EXCEPT !.panelSocket[id] = "open", !.created = id, !.constructed = id]

\* a constructor that renders the view before it returns
constructorRenders(w, id, url) ==
    update([w EXCEPT !.targetUrl[id] = url, !.panelSocket[id] = "open",
                     !.created = id, !.constructed = id], id)

\* new ScreencastPanel(panel, context, targetUrl): stores the fields, builds the
\* socket bridge and wires the handlers; it renders nothing
constructor(w, id, url) ==
    [w EXCEPT !.targetUrl[id] = url, !.panelSocket[id] = "open",
              !.created = id, !.constructed = id]

\* createOrShow that restarts: disposes the old instance, then constructs
createOrShowRestart(w, url) ==
    LET w0 == IF w.instance # 0 THEN dispose(w, w.instance) ELSE w
        id == w0.created + 1
        w1 == constructor(createWebviewPanel(w0, id), id, url)
    IN  [w1 EXCEPT !.instance = id]

\* createOrShow that hands the slot a controller that already exists
createOrShowReuse(w, url) ==
    IF w.instance # 0 THEN dispose(w, w.instance)
    ELSE IF w.created = 0
    THEN LET w1 == constructor(createWebviewPanel(w, 1), 1, url)
         IN  [w1 EXCEPT !.instance = 1]
    ELSE LET id == w.created
         IN  [w EXCEPT !.instance = id, !.panel[id] = "live",
                       !.panelSocket[id] = "open", !.targetUrl[id] = url,
                       !.constructed = id, !.nPanelCreate = @ + 1]

\* ScreencastPanel.createOrShow(context, targetUrl)
createOrShow(w, url) ==
    IF w.instance # 0
    THEN dispose(w, w.instance)
    ELSE LET id == w.created + 1
             w1 == constructor(createWebviewPanel(w, id), id, url)
         IN  [w1 EXCEPT !.instance = id]

\* ------------------------------------------------------------------ inputs
Absent == "-"
Member(key, tok) == IF tok = Absent THEN <<>> ELSE <<<<key, ":", tok>>>>

RECURSIVE JoinMembers(_)
JoinMembers(ms) ==
    IF Len(ms) = 0 THEN <<>>
    ELSE IF Len(ms) = 1 THEN ms[1]
    ELSE ms[1] \o <<",">> \o JoinMembers(Tail(ms))

\* the text of an object with the given (possibly absent) members
ObjectDoc(ec, ti, me, foo) ==
    <<"{">> \o JoinMembers(Member("\"errorCode\"", ec) \o Member("\"title\"", ti)
                           \o Member("\"message\"", me) \o Member("\"foo\"", foo))
            \o <<"}">>

ObjectDocs ==
    {ObjectDoc(ec, ti, me, foo) :
        ec \in {Absent, "0", "1", "null"}, ti \in {Absent, "\"\"", "\"Oops\""},
        me \in {Absent, "\"\"", "\"failed\""}, foo \in {Absent, "\"bar\""}}

StructuredDoc == ObjectDoc("1", "\"Oops\"", "\"failed\"", Absent)
FooBarDoc == ObjectDoc(Absent, Absent, Absent, "\"bar\"")

ValueDocs ==
    ObjectDocs \cup {<<"null">>, <<"true">>, <<"1">>, <<"\"Oops\"">>, <<"[", "]">>,
                     <<"[", "1", ",", "\"bar\"", "]">>}

\* texts that are not JSON: every cut of the structured example, and a few more
MalformedDocs ==
    {SubSeq(StructuredDoc, 1, n) : n \in 0..(Len(StructuredDoc) - 1)}
    \cup {<<"oops">>, <<"{", "\"foo\"", ":", "\"bar\"", ",", "}">>,
          <<"{", "\"foo\"", "\"bar\"", "}">>, <<"[", "1", ",", "]">>,
          <<"1", "1">>, <<"{", "1", ":", "1", "}">>}

RawErrors == ValueDocs \cup MalformedDocs
\* the error strings the lifecycle specification delivers
SampleErrors == {StructuredDoc, FooBarDoc, <<"null">>, <<"oops">>}

\* ----------------------------------------------------------------- actions
NoEvent ==
    [op |-> "init", c |-> 0, stale |-> FALSE, msg |-> <<>>, raised |-> "none",
     dialog |-> <<>>, telemetry |-> <<>>, forwarded |-> <<>>, posts |-> <<>>,
     htmlAssigns |-> 0, nDispose |-> 0, nPanelDispose |-> 0, nSocketDispose |-> 0,
     nPanelCreate |-> 0, constructed |-> 0, disposedId |-> 0, slotBefore |-> 0,
     releasedInSlot |-> FALSE,
     prevConstructed |-> 0, prevDisposedId |-> 0]

Init ==
    /\ instance = 0
    /\ created = 0
    /\ panel = [c \in Ids |-> "none"]
    /\ panelSocket = [c \in Ids |-> "none"]
    /\ targetUrl = [c \in Ids |-> ""]
    /\ visible = [c \in Ids |-> FALSE]
    /\ html = [c \in Ids |-> ""]
    /\ firstDisposal = [c \in Ids |-> <<>>]
    /\ last = NoEvent
    /\ inbox = <<>>
    /\ outbox = <<>>

Constructed(c) == c \in 1..created
\* dispose() has run on c
Disposed(c) == panel[c] = "released"

\* The handler op, delivered to controller c (0: the static createOrShow) with
\* input msg, ran to completion and left the world w.  prevConstructed and prevDisposedId are what
\* the call before did, when both it and this one are createOrShow calls.
Step(op, c, msg, w) ==
    /\ instance' = w.instance
    /\ created' = w.created
    /\ panel' = w.panel
    /\ panelSocket' = w.panelSocket
    /\ targetUrl' = w.targetUrl
    /\ visible' = w.visible
    /\ html' = w.html
    /\ firstDisposal' =
           [x \in Ids |->
               IF x = w.disposedId /\ firstDisposal[x] = <<>>
               THEN <<w.instance, w.panel[x], w.panelSocket[x]>>
               ELSE firstDisposal[x]]
    /\ last' =
           [op |-> op, c |-> c, stale |-> (c # 0 /\ Disposed(c)), msg |-> msg,
            raised |-> w.raised, dialog |-> w.dialog, telemetry |-> w.telemetry,
            forwarded |-> w.forwarded, posts |-> w.posts,
            htmlAssigns |-> w.htmlAssigns, nDispose |-> w.nDispose,
            nPanelDispose |-> w.nPanelDispose, nSocketDispose |-> w.nSocketDispose,
            nPanelCreate |-> w.nPanelCreate, constructed |-> w.constructed,
            disposedId |-> w.disposedId, slotBefore |-> instance,
            releasedInSlot |-> w.releasedInSlot,
            prevConstructed |->
                IF op = "createOrShow" /\ last.op = "createOrShow"
                THEN last.constructed ELSE 0,
            prevDisposedId |->
                IF op = "createOrShow" /\ last.op = "createOrShow"
                THEN last.disposedId ELSE 0]

\* a handler ran whose deliveries are not recorded in the message history
Commit(op, c, msg, w) ==
    /\ Step(op, c, msg, w)
    /\ UNCHANGED <<inbox, outbox>>

\* createOrShow(context, url) is called; at most max controllers are modelled
CreateUpTo(url, max) ==
    /\ instance # 0 \/ created < max
    /\ Commit("createOrShow", 0, <<url>>, createOrShow(World, url))

\* the extension calls ScreencastPanel.createOrShow(context, url)
CreateOrShow(url) == CreateUpTo(url, MaxControllers)

\* dispose() is called on a controller
Dispose(c) ==
    /\ Constructed(c)
    /\ Commit("dispose", c, <<>>, dispose(World, c))

\* the user closes the panel: the host releases it and delivers the panel's
\* dispose notification, which it fires once per panel
PanelClosed(c) ==
    /\ Constructed(c)
    /\ panel[c] = "live"
    /\ Commit("panelDispose", c, <<>>,
              onDidDispose([World EXCEPT !.panel[c] = "released"], c))

\* the socket bridge emits 'close'
SocketClose(c) ==
    /\ Constructed(c)
    /\ Commit("socketClose", c, <<>>, onSocketClose(World, c))

\* the host delivers a view-state change; v is what panel.visible now reads
ViewStateChange(c, v) ==
    /\ Constructed(c)
    /\ Commit("viewState", c, <<>>,
              onDidChangeViewState([World EXCEPT !.visible[c] = v], c))

\* the host delivers a view-state change on a handle it has released, and
\* reading panel.visible raises the host's "Webview is disposed" error
ViewStateChangeReleased(c) ==
    /\ Constructed(c)
    /\ Disposed(c)
    /\ Commit("viewState", c, <<>>, [World EXCEPT !.raised = "WebviewDisposed"])

\* update() is invoked on a controller directly, whatever panel.visible reads
Update(c) ==
    /\ Constructed(c)
    /\ Commit("update", c, <<>>, update(World, c))

\* the webview sends a message
WebviewMessage(c, m) ==
    /\ Constructed(c)
    /\ Commit("webviewMessage", c, <<m>>, onDidReceiveMessage(World, c, m))

\* the webview sends a message, recorded in the message history
WebviewMessageLogged(c, m) ==
    /\ Constructed(c)
    /\ Len(inbox) < MaxMessages
    /\ LET w == onDidReceiveMessage(World, c, m)
       IN  /\ Step("webviewMessage", c, <<m>>, w)
           /\ inbox' = Append(inbox, <<c, m>>)
           /\ outbox' = outbox \o w.forwarded

\* the socket bridge emits 'reportError' with the string msg
SocketReportError(c, msg) ==
    /\ Constructed(c)
    /\ Commit("reportError", c, msg, reportError(World, c, msg))

\* the socket bridge invokes its callback (e, message?)
SocketCallback(c, e, message) ==
    /\ Constructed(c)
    /\ Commit("socketCallback", c, <<e>> \o message,
              postToWebview(World, c, e, message))

OptionalMessages == {<<>>} \cup {<<m>> : m \in Messages}

\* The lifecycle specification: the four teardown triggers and the view state.
Next ==
    \/ \E url \in Urls : CreateOrShow(url)
    \/ \E c \in Ids : Dispose(c)
    \/ \E c \in Ids : PanelClosed(c)
    \/ \E c \in Ids : SocketClose(c)
    \/ \E c \in Ids, v \in BOOLEAN : ViewStateChange(c, v)
    \/ \E c \in Ids : ViewStateChangeReleased(c)

Spec == Init /\ [][Next]_vars

\* The render specification: the lifecycle, the view state and update() itself.
CreateOrShowUpd(url) == CreateUpTo(url, MaxControllers)

NextUpd ==
    \/ \E url \in Urls : CreateOrShowUpd(url)
    \/ \E c \in Ids : Dispose(c)
    \/ \E c \in Ids, v \in BOOLEAN : ViewStateChange(c, v)
    \/ \E c \in Ids : Update(c)

SpecUpd == Init /\ [][NextUpd]_vars

\* The teardown specification: createOrShow and the three teardown handlers.
CreateOrShowLife(url) == CreateUpTo(url, MaxLifeControllers)

NextLife ==
    \/ \E url \in Urls : CreateOrShowLife(url)
    \/ \E c \in Ids : Dispose(c)
    \/ \E c \in Ids : PanelClosed(c)
    \/ \E c \in Ids : SocketClose(c)

SpecLife == Init /\ [][NextLife]_vars

\* The event specification: every handler, all panels on one target URL.
CreateOrShowEvt(url) == CreateUpTo(url, MaxEvtControllers)
EvtUrls == {"ws://a"}

NextEvt ==
    \/ \E url \in EvtUrls : CreateOrShowEvt(url)
    \/ \E c \in Ids : Dispose(c)
    \/ \E c \in Ids : PanelClosed(c)
    \/ \E c \in Ids : SocketClose(c)
    \/ \E c \in Ids, v \in BOOLEAN : ViewStateChange(c, v)
    \/ \E c \in Ids : ViewStateChangeReleased(c)
    \/ \E c \in Ids, m \in Messages : WebviewMessage(c, m)
    \/ \E c \in Ids, msg \in SampleErrors : SocketReportError(c, msg)
    \/ \E c \in Ids, e \in WebSocketEvents, message \in OptionalMessages :
           SocketCallback(c, e, message)

SpecEvt == Init /\ [][NextEvt]_vars

\* The message specification: the lifecycle and recorded webview messages.
CreateOrShowMsg(url) == CreateUpTo(url, MaxMsgControllers)

NextMsg ==
    \/ \E url \in Urls : CreateOrShowMsg(url)
    \/ \E c \in Ids : Dispose(c)
    \/ \E c \in Ids, m \in Messages : WebviewMessageLogged(c, m)

SpecMsg == Init /\ [][NextMsg]_vars

\* The reportError specification: one controller, every error string.
CreateOrShowErr(url) == CreateUpTo(url, MaxErrControllers)

NextErr ==
    \/ \E url \in Urls : CreateOrShowErr(url)
    \/ \E c \in Ids, msg \in RawErrors : SocketReportError(c, msg)

SpecErr == Init /\ [][NextErr]_vars

\* ------------------------------------------------------------------ claims
LivePanels == {c \in Ids : panel[c] = "live"}
Released(c) == panel[c] = "released" /\ panelSocket[c] = "disposed"
TeardownOps == {"dispose", "panelDispose", "socketClose"}

\* C1: in every reachable state at most one panel is live (created and not
\* released), whatever sequence of createOrShow calls, panel closes, socket
\* closes and dispose() calls (also on already disposed controllers) ran.
C1_AtMostOneLivePanel == Cardinality(LivePanels) <= 1

\* the last two handlers that ran were createOrShow calls
TwoInSuccession ==
    last.op = "createOrShow" /\ (last.prevConstructed # 0 \/ last.prevDisposedId # 0)

C3_DisposeOrConstruct ==
    last.op = "createOrShow" =>
        IF last.slotBefore # 0
        THEN /\ last.disposedId = last.slotBefore
             /\ Released(last.slotBefore)
             /\ last.constructed = 0
             /\ last.nPanelCreate = 0
             /\ instance = 0
        ELSE /\ last.nDispose = 0
             /\ last.disposedId = 0
             /\ last.nPanelCreate = 1
             /\ last.constructed # 0
             /\ instance = last.constructed
             /\ panel[instance] = "live"
             /\ panelSocket[instance] = "open"
             /\ <<targetUrl[instance]>> = last.msg

C3_Witness ==
    /\ last.op = "createOrShow"
    /\ last.slotBefore = 0
    /\ instance = 2
    /\ targetUrl[2] # targetUrl[1]

\* C4: when one of the four triggers (user closes the panel, socket close,
\* dispose(), createOrShow on the singleton) has run on a controller that was
\* Active, the slot is empty, its panel released and its socket disposed.
C4_TriggerDisposes ==
    /\ (last.op \in TeardownOps /\ ~last.stale) =>
           instance = 0 /\ Released(last.c)
    /\ (last.op = "createOrShow" /\ last.slotBefore # 0) =>
           instance = 0 /\ Released(last.slotBefore)

C4_Witness ==
    /\ last.op = "socketClose"
    /\ ~last.stale
    /\ last.slotBefore = last.c
    /\ instance = 0
    /\ Released(last.c)

\* C5: a handler delivered to a controller that was already disposed assigns
\* no HTML to its panel.
C5_NoRenderAfterDisposal == last.stale => last.htmlAssigns = 0

C5_Witness ==
    /\ last.op = "viewState"
    /\ last.stale
    /\ last.htmlAssigns = 1

\* the five event sources the constructor subscribes to
EventOps == {"panelDispose", "viewState", "webviewMessage", "socketClose",
             "reportError"}

\* C6: an event of the five sources delivered to a controller that was already
\* disposed is a no-op: the slot and every other controller are unchanged, no
\* collaborator (error dialog, telemetry, socket bridge, webview post) is
\* invoked and no error is raised.
C6_StaleEventNoOp ==
    [][(last'.op \in EventOps /\ last'.stale) =>
          /\ instance' = instance
          /\ \A d \in Ids \ {last'.c} :
                 /\ panel'[d] = panel[d]
                 /\ panelSocket'[d] = panelSocket[d]
                 /\ html'[d] = html[d]
          /\ last'.dialog = <<>>
          /\ last'.telemetry = <<>>
          /\ last'.forwarded = <<>>
          /\ last'.nSocketDispose = 0
          /\ last'.posts = <<>>
          /\ last'.raised = "none"]_vars

C8_DisposedIsTerminal ==
    [][/\ \A c \in Ids :
              Disposed(c) => instance' # c /\ Released(c)'
       /\ last'.constructed # 0 =>
              /\ panel[last'.constructed] = "none"
              /\ panelSocket[last'.constructed] = "none"
              /\ instance' = last'.constructed]_vars

C8_Witness ==
    /\ last.op = "createOrShow"
    /\ last.constructed = 2
    /\ instance = 2
    /\ Released(1)

\* the payload has errorCode, title and message
AllPresent(x) == x.t = "obj" /\ {"errorCode", "title", "message"} \subseteq DOMAIN x.m

\* C9: for every error string that is valid JSON, reportError invokes exactly
\* one collaborator: the error dialog with the parsed object when errorCode,
\* title and message are all present, else telemetry with the raw string.
C9_RoutesEveryJsonValue ==
    (last.op = "reportError" /\ last.msg \in ValueDocs) =>
        /\ last.raised = "none"
        /\ IF AllPresent(JSONParse(last.msg).val)
           THEN last.dialog = <<JSONParse(last.msg).val>> /\ last.telemetry = <<>>
           ELSE last.dialog = <<>> /\ last.telemetry = <<TelemetryEvent(last.msg)>>

\* C10: for an error string that is not valid JSON, the parse error leaves
\* the reportError handler, neither the error dialog nor telemetry is
\* invoked, and the slot, the panels and the socket bridges are unchanged.
C10_ParseFailurePropagates ==
    [][(last'.op = "reportError" /\ last'.msg \in MalformedDocs) =>
          /\ last'.raised = "SyntaxError"
          /\ last'.dialog = <<>>
          /\ last'.telemetry = <<>>
          /\ UNCHANGED <<instance, created, panel, panelSocket>>]_vars

C10_Witness ==
    /\ last.op = "reportError"
    /\ last.msg = <<"{", "\"foo\"", ":", "\"bar\"", ",", "}">>
    /\ last.raised = "SyntaxError"
    /\ ~last.stale
    /\ instance = 1

\* C11 as stated: update() invoked while the panel is not visible assigns no
\* HTML, a view-state change delivered while the panel is not visible assigns
\* none, and one delivered to an Active controller while the panel is visible
\* assigns the rendered HTML exactly once.
C11_RenderOnlyWhileVisible ==
    /\ (last.op \in {"update", "viewState"} /\ ~visible[last.c]) =>
           last.htmlAssigns = 0
    /\ (last.op = "viewState" /\ ~last.stale /\ visible[last.c]) =>
           last.htmlAssigns = 1 /\ html[last.c] = "view"

\* C11 amended: the visibility check is the view-state handler's, not
\* update()'s.  A view-state change delivered while the panel is not visible
\* assigns no HTML, one delivered to an Active controller while the panel is
\* visible assigns the rendered HTML exactly once, and update() itself
\* assigns the rendered HTML exactly once whenever it is invoked, visible or
\* not.
C11_HandlerChecksVisibility ==
    /\ (last.op = "viewState" /\ ~visible[last.c]) => last.htmlAssigns = 0
    /\ (last.op = "viewState" /\ ~last.stale /\ visible[last.c]) =>
           last.htmlAssigns = 1 /\ html[last.c] = "view"
    /\ last.op = "update" => last.htmlAssigns = 1 /\ html[last.c] = "view"

\* a view-state change to hidden on an Active controller that never rendered
C11_Witness ==
    /\ last.op = "viewState"
    /\ ~last.stale
    /\ ~visible[last.c]
    /\ last.htmlAssigns = 0
    /\ html[last.c] = ""

\* C12 as stated: when a createOrShow call that constructs a controller
\* returns, the new panel's HTML has been assigned the rendered view.
C12_RenderedOnCreation ==
    (last.op = "createOrShow" /\ last.constructed # 0) =>
        last.htmlAssigns = 1 /\ html[last.constructed] = "view"

\* C12 amended: construction renders nothing.  When a createOrShow call that
\* constructs a controller returns, the new panel's HTML is still unassigned;
\* a panel's HTML is first assigned by a visibility-change event delivered to
\* its controller while the panel is visible.
C12_RenderedOnFirstViewState ==
    [][/\ (last'.op = "createOrShow" /\ last'.constructed # 0) =>
              last'.htmlAssigns = 0 /\ html'[last'.constructed] = ""
       /\ \A c \in Ids :
              html'[c] # html[c] =>
                  /\ last'.op = "viewState"
                  /\ last'.c = c
                  /\ visible'[c]
                  /\ html'[c] = "view"]_vars

C12_Witness ==
    /\ last.op = "createOrShow"
    /\ last.constructed = 2
    /\ last.htmlAssigns = 0
    /\ html[2] = ""
    /\ html[1] = "view"

\* C13: every socket-bridge callback (event, message?) on a controller
\* produces exactly one post to that controller's webview, on channel
\* 'websocket', carrying exactly the event and message passed, with no
\* message property when no message was passed.
C13_OnePostPerCallback ==
    last.op = "socketCallback" =>
        /\ Len(last.posts) = 1
        /\ last.posts[1].webview = last.c
        /\ last.posts[1].channel = "websocket"
        /\ last.posts[1].args["event"] = last.msg[1]
        /\ IF Len(last.msg) = 1
           THEN DOMAIN last.posts[1].args = {"event"}
           ELSE /\ DOMAIN last.posts[1].args = {"event", "message"}
                /\ last.posts[1].args["message"] = last.msg[2]

\* a callback without a message
C13_Witness ==
    /\ last.op = "socketCallback"
    /\ last.msg = <<"open">>
    /\ Len(last.posts) = 1
    /\ DOMAIN last.posts[1].args = {"event"}

\* C14: every webview message delivered to a controller is forwarded to that
\* controller's socket bridge exactly once and unchanged, and the forwarded
\* messages are the delivered messages in the same order.
C14_ForwardedInOrder ==
    /\ last.op = "webviewMessage" =>
           last.forwarded = <<[socket |-> last.c, message |-> last.msg[1]]>>
    /\ Len(outbox) = Len(inbox)
    /\ \A i \in 1..Len(inbox) :
           outbox[i] = [socket |-> inbox[i][1], message |-> inbox[i][2]]

\* two different messages delivered to the Active controller
C14_Witness ==
    /\ Len(inbox) = 2
    /\ inbox[1][1] = inbox[2][1]
    /\ inbox[1][2] # inbox[2][2]
    /\ instance = inbox[1][1]
    /\ Len(outbox) = 2

\* C15: whenever the slot is non-empty, the controller it references has a
\* live panel and an open socket bridge: no handler released a panel or a
\* socket of a controller while the slot still held it, and createOrShow
\* fills the slot only with a constructed controller.
C15_SlotHoldsLiveController ==
    /\ instance # 0 =>
           /\ Constructed(instance)
           /\ panel[instance] = "live"
           /\ panelSocket[instance] = "open"
    /\ ~last.releasedInSlot

\* the slot holds a second controller after the first was disposed
C15_Witness ==
    /\ instance = 2
    /\ Released(1)
    /\ panel[2] = "live"
    /\ panelSocket[2] = "open"

\* the last handler was a teardown trigger, and the controller it tore down
IsTeardown ==
    last.op \in TeardownOps \/ (last.op = "createOrShow" /\ last.slotBefore # 0)
TornDown == IF last.op = "createOrShow" THEN last.slotBefore ELSE last.c

\* C16: with the panel firing its dispose notification at most once, every
\* teardown trigger completes after at most two nested dispose() calls (two
\* when dispose() itself releases the panel, one when the panel was already
\* released), and ends with the slot empty and both resources disposed.
C16_TeardownTerminates ==
    IsTeardown =>
        /\ last.nDispose =
               (IF last.stale \/ last.op = "panelDispose" THEN 1 ELSE 2)
        /\ last.nPanelDispose = last.nDispose
        /\ last.nSocketDispose <= 3
        /\ instance = 0
        /\ Released(TornDown)

\* an explicit dispose() on an Active controller: dispose() runs twice
C16_Witness ==
    /\ last.op = "dispose"
    /\ ~last.stale
    /\ last.nDispose = 2
    /\ last.nSocketDispose = 3
    /\ instance = 0
    /\ Released(last.c)

\* the handlers that are not part of the lifecycle
PassiveOps == {"viewState", "webviewMessage", "reportError", "socketCallback"}
LifecycleOps == {"createOrShow", "dispose", "panelDispose", "socketClose"}

\* C17: a visibility-change event, a webview message, a socket error report
\* and a socket callback post never change the slot, never release a panel,
\* never dispose a socket bridge and construct nothing; a step that changes
\* any of these is createOrShow, dispose(), the panel-dispose handler or the
\* socket-close handler.
C17_PassiveHandlersKeepLifecycle ==
    [][/\ last'.op \in PassiveOps =>
              /\ UNCHANGED <<instance, created, panel, panelSocket>>
              /\ last'.nDispose = 0
              /\ last'.nPanelDispose = 0
              /\ last'.nSocketDispose = 0
              /\ last'.nPanelCreate = 0
       /\ <<instance, created, panel, panelSocket>>'
              # <<instance, created, panel, panelSocket>> =>
              last'.op \in LifecycleOps]_vars

\* an error report routed to telemetry while a controller holds the slot
C17_Witness ==
    /\ last.op = "reportError"
    /\ ~last.stale
    /\ Len(last.telemetry) = 1
    /\ instance = last.c
    /\ panel[last.c] = "live"
    /\ panelSocket[last.c] = "open"

====
